---- MODULE Spec2Model ----
(***************************************************************************)
(* Procurement dashboard (src/app.py): the reconciliation and              *)
(* classification engine.  compute_metrics renames the uploaded PR and PO  *)
(* tables to canonical field names, derives a category per row, classifies *)
(* PRs and POs as open, and counts; the Dashboard page filters the         *)
(* annotated tables and recomputes the metrics on the filtered subsets.    *)
(*                                                                         *)
(* Text is a sequence of one-character strings, so that str.lower() and    *)
(* str.strip() are computed and not assumed.  A table cell is a record     *)
(* [t, s, n]: t is the kind of value, s its text, n its number.            *)
(***************************************************************************)
EXTENDS Integers, Sequences, FiniteSets, TLC

VARIABLES
    config,     \* the process-wide configuration object (app.py:55)
    prs_df,     \* the uploaded PRs sheet, or None (app.py:381)
    pos_df,     \* the uploaded POs sheet, or None (app.py:381)
    metrics,    \* result of the unfiltered compute_metrics call (app.py:386)
    prs,        \* annotated PR table of that call
    pos,        \* annotated PO table of that call
    filters,    \* the values of the filter widgets (app.py:389-406)
    prs_f,      \* filtered PR table (app.py:415-427)
    pos_f,      \* filtered PO table
    metrics_f,  \* result of the compute_metrics call on the filtered tables (app.py:430)
    args,       \* arguments of a direct call of derive_category; on the upload
                \* page, the table a write of the category lookup has read
    ret,        \* its return value
    pc          \* position in the page script

vars == <<config, prs_df, pos_df, metrics, prs, pos, filters, prs_f, pos_f,
          metrics_f, args, ret, pc>>

-----------------------------------------------------------------------------
(* Text *)

sEmpty      == <<>>
sMRO        == <<"M","R","O">>
sServices   == <<"S","e","r","v","i","c","e","s">>
sCapex      == <<"C","a","p","e","x">>
sPCM        == <<"P","C","M">>
sMisc       == <<"M","i","s","c">>
sMroLower   == <<"m","r","o">>
sMROPadded  == <<" ","M","R","O"," ">>
sclosed     == <<"c","l","o","s","e","d">>
sClosed     == <<"C","l","o","s","e","d">>
sCLOSED     == <<"C","L","O","S","E","D">>
sClosedSp   == <<"C","l","o","s","e","d"," ">>
sopen       == <<"o","p","e","n">>
sOpen       == <<"O","p","e","n">>
sOPEN       == <<"O","P","E","N">>
sPending    == <<"P","e","n","d","i","n","g">>
sInProgress == <<"I","n"," ","P","r","o","g","r","e","s","s">>
sPartial    == <<"P","a","r","t","i","a","l">>
sDelayed    == <<"D","e","l","a","y","e","d">>
sDone       == <<"D","o","n","e">>
sPR1        == <<"P","R","1">>
sPR1Padded  == <<" ","P","R","1"," ">>
sPR2        == <<"P","R","2">>
sSteel      == <<"S","T","E","E","L","-","0","1">>
sSteelPad   == <<"S","T","E","E","L","-","0","1"," ">>
sCC7        == <<"C","C","7">>
sIT3        == <<"I","T","3">>
sAcme       == <<"A","c","m","e">>
sBolt       == <<"B","o","l","t">>
sAnn        == <<"A","n","n">>
sBob        == <<"B","o","b">>
sNA         == <<"n","/","a">>
sTwo        == <<"2">>
sTwoPadded  == <<" ","2">>
snan        == <<"n","a","n">>
sNone       == <<"N","o","n","e">>
sNaT        == <<"N","a","T">>
sTrue       == <<"T","r","u","e">>
sFalse      == <<"F","a","l","s","e">>

UpperChars == <<"A","B","C","D","E","F","G","H","I","J","K","L","M",
                "N","O","P","Q","R","S","T","U","V","W","X","Y","Z">>
LowerChars == <<"a","b","c","d","e","f","g","h","i","j","k","l","m",
                "n","o","p","q","r","s","t","u","v","w","x","y","z">>
DigitChars == <<"0","1","2","3","4","5","6","7","8","9">>

\* upper-case letter -> lower-case letter
ToLower ==
    [c \in {UpperChars[i] : i \in DOMAIN UpperChars} |->
        LowerChars[CHOOSE i \in DOMAIN UpperChars : UpperChars[i] = c]]

\* one character of str.lower()
LowerChar(c) == IF c \in DOMAIN ToLower THEN ToLower[c] ELSE c

\* str.lower()
Lower(s) == [i \in DOMAIN s |-> LowerChar(s[i])]

IsSpace(c) == c = " "

RECURSIVE LStrip(_)
LStrip(s) == IF s # <<>> /\ IsSpace(Head(s)) THEN LStrip(Tail(s)) ELSE s

RECURSIVE RStrip(_)
RStrip(s) ==
    IF s # <<>> /\ IsSpace(s[Len(s)]) THEN RStrip(SubSeq(s, 1, Len(s) - 1)) ELSE s

\* str.strip()
Strip(s) == RStrip(LStrip(s))

\* decimal text of a natural number, as str(int) prints it
RECURSIVE Digits(_)
Digits(n) ==
    IF n < 10 THEN <<DigitChars[n + 1]>>
    ELSE Digits(n \div 10) \o <<DigitChars[(n % 10) + 1]>>

\* digit character -> its value
DigitVal ==
    [c \in {DigitChars[i] : i \in DOMAIN DigitChars} |->
        (CHOOSE i \in DOMAIN DigitChars : DigitChars[i] = c) - 1]

IsDigit(c) == c \in DOMAIN DigitVal

RECURSIVE DecimalVal(_)
DecimalVal(s) ==
    IF s = <<>> THEN 0
    ELSE 10 * DecimalVal(SubSeq(s, 1, Len(s) - 1)) + DigitVal[s[Len(s)]]

-----------------------------------------------------------------------------
(* Cells *)

StrCell(s)  == [t |-> "str",  s |-> s,    n |-> 0]
NumCell(n)  == [t |-> "num",  s |-> <<>>, n |-> n]
TsCell(n)   == [t |-> "ts",   s |-> <<>>, n |-> n]
BoolCell(b) == [t |-> "bool", s |-> <<>>, n |-> IF b THEN 1 ELSE 0]
NaN         == [t |-> "nan",  s |-> <<>>, n |-> 0]
NaT         == [t |-> "nat",  s |-> <<>>, n |-> 0]
NoneCell    == [t |-> "none", s |-> <<>>, n |-> 0]

\* pd.isna / the values dropna() drops
IsNa(c) == c.t \in {"nan", "nat", "none"}

\* Python's str(value)
Str(c) ==
    CASE c.t = "str"  -> c.s
      [] c.t = "num"  -> IF c.n < 0 THEN <<"-">> \o Digits(-c.n) ELSE Digits(c.n)
      [] c.t = "bool" -> IF c.n = 1 THEN sTrue ELSE sFalse
      [] c.t = "nan"  -> snan
      [] c.t = "nat"  -> sNaT
      [] c.t = "none" -> sNone
      [] OTHER        -> <<"t","s">> \o Digits(c.n)

\* Python's float(value): ok is FALSE where float() raises.  Text converts when,
\* stripped, it is a run of decimal digits.
Float(c) ==
    CASE c.t \in {"num", "bool"} -> [ok |-> TRUE, v |-> c.n]
      [] c.t = "str" ->
            LET d == Strip(c.s)
            IN  IF d # <<>> /\ \A i \in DOMAIN d : IsDigit(d[i])
                THEN [ok |-> TRUE, v |-> DecimalVal(d)]
                ELSE [ok |-> FALSE, v |-> 0]
      [] OTHER -> [ok |-> FALSE, v |-> 0]

-----------------------------------------------------------------------------
(* Tables: a DataFrame is its set of column names and its rows in order; each *)
(* row is a function from the column names to cells.  none marks Python's None. *)

NoneDF == [none |-> TRUE, cols |-> {}, rows |-> <<>>]

\* pd.DataFrame()
EmptyDF == [none |-> FALSE, cols |-> {}, rows |-> <<>>]

Frame(cols, rows) == [none |-> FALSE, cols |-> cols, rows |-> rows]

\* DataFrame.empty
IsEmpty(df) == df.rows = <<>> \/ df.cols = {}

\* row.get(col, default)
Get(row, col, default) == IF col \in DOMAIN row THEN row[col] ELSE default

\* df[name] = series, the series holding one cell per row
SetColumn(df, name, series) ==
    Frame(df.cols \cup {name},
          [i \in DOMAIN df.rows |->
              [c \in df.cols \cup {name} |->
                  IF c = name THEN series[i] ELSE df.rows[i][c]]])

RECURSIVE MaskRows(_, _)
MaskRows(rows, mask) ==
    IF rows = <<>> THEN <<>>
    ELSE (IF Head(mask) THEN <<Head(rows)>> ELSE <<>>)
         \o MaskRows(Tail(rows), Tail(mask))

\* df[mask]: the rows whose entry of the boolean series is true, in their order
Where(df, mask) == Frame(df.cols, MaskRows(df.rows, mask))

\* int(df[col].sum()) of a boolean column
Count(df, col) == Cardinality({i \in DOMAIN df.rows : df.rows[i][col] = BoolCell(TRUE)})

-----------------------------------------------------------------------------
(* Constants of the program *)

\* app.py:118 writes this sentinel with em dashes; the dashes are ASCII here
NOT_MAPPED == "- not mapped -"

REQUIRED_PRS_FIELDS == <<"PR_Number", "PR_Date", "PR_Status">>
OPTIONAL_PRS_FIELDS ==
    <<"PR_Amount", "Material_Group", "Cost_Center", "Item_Type", "Category">>
REQUIRED_POS_FIELDS == <<"PO_Number", "PO_Date", "PO_Status", "Delivery_Status">>
OPTIONAL_POS_FIELDS ==
    <<"Vendor", "PO_Quantity", "GRN_Quantity", "PR_Number", "PR_Line", "Category">>

CATEGORIES == <<sMRO, sServices, sCapex, sPCM>>

InCategories(s) == \E i \in DOMAIN CATEGORIES : CATEGORIES[i] = s

KEY_FIELDS == <<"Material_Group", "Cost_Center", "Item_Type">>

\* key of the metrics record
TOTAL_PRS == "Total PRs"
TOTAL_POS == "Total POs"
OPEN_PRS  == "Open PRs"
OPEN_DELIVERY_POS == "Open Delivery POs"

-----------------------------------------------------------------------------
(* Field mapping: a dict from canonical field to raw column name *)

\* `col and col != NOT_MAPPED` of mapping.get(field): a missing key reads None
IsMapped(mapping, field) ==
    /\ field \in DOMAIN mapping
    /\ mapping[field] # ""
    /\ mapping[field] # NOT_MAPPED

-----------------------------------------------------------------------------
(* derive_category *)

\* the key fields from position i on (the loop of app.py:142-149)
RECURSIVE KeyFieldLookup(_, _, _, _)
KeyFieldLookup(row, mapping, cfg_mapping, i) ==
    IF i > Len(KEY_FIELDS) THEN NoneCell
    ELSE LET key_field == KEY_FIELDS[i]
             key_val   == Strip(Str(Get(row, mapping[key_field], StrCell(sEmpty))))
         IN  IF /\ IsMapped(mapping, key_field)
                /\ key_val \in DOMAIN cfg_mapping
                /\ InCategories(cfg_mapping[key_val])
             THEN StrCell(cfg_mapping[key_val])
             ELSE KeyFieldLookup(row, mapping, cfg_mapping, i + 1)

\* derive_category with the key fields tried before the explicit Category column
derive_category_keys_first(row, mapping, cfg_mapping) ==
    LET val == Strip(Str(Get(row, mapping["Category"], StrCell(sEmpty))))
        looked == KeyFieldLookup(row, mapping, cfg_mapping, 1)
    IN  IF looked # NoneCell THEN looked
        ELSE IF IsMapped(mapping, "Category") /\ InCategories(val)
        THEN StrCell(val)
        ELSE NoneCell

derive_category(row, mapping, cfg_mapping) ==
    LET val == Strip(Str(Get(row, mapping["Category"], StrCell(sEmpty))))
    IN  IF IsMapped(mapping, "Category") /\ InCategories(val)
        THEN StrCell(val)
        ELSE KeyFieldLookup(row, mapping, cfg_mapping, 1)

-----------------------------------------------------------------------------
(* compute_metrics *)

\* parse_date: a missing value and text that is no date give NaT, a datetime
\* cell is kept.  (Numeric and boolean cells do not occur in the date columns
\* of the inputs enumerated here.)
parse_date(c) == IF c.t = "ts" THEN c ELSE NaT

\* the dict m of unify: raw column -> canonical field; of several fields mapped
\* to one raw column the last of required + optional wins
RenamedTo(c, mapping, fields) ==
    LET ks == {i \in DOMAIN fields :
                  IsMapped(mapping, fields[i]) /\ mapping[fields[i]] = c}
    IN  IF ks = {} THEN c
        ELSE fields[CHOOSE i \in ks : \A j \in ks : j <= i]

\* rename keeps one column per name only when no two raw columns get the same
\* name; the inputs enumerated here are such tables
RenameIsInjective(df, mapping, fields) ==
    \A c1, c2 \in df.cols :
        RenamedTo(c1, mapping, fields) = RenamedTo(c2, mapping, fields) => c1 = c2

unify(df, mapping, required, optional) ==
    IF IsEmpty(df) THEN df
    ELSE LET fields  == required \o optional
             newcols == {RenamedTo(c, mapping, fields) : c \in df.cols}
             raw(n)  == CHOOSE c \in df.cols : RenamedTo(c, mapping, fields) = n
         IN  Frame(newcols,
                   [i \in DOMAIN df.rows |->
                       [n \in newcols |->
                           IF n \in {"PR_Date", "PO_Date"}
                           THEN parse_date(df.rows[i][raw(n)])
                           ELSE df.rows[i][raw(n)]]])

\* "Derive Category where missing" (app.py:216-221)
WithCategory(df, mapping, cfg_map) ==
    IF "Category" \notin df.cols /\ ~IsEmpty(df)
    THEN SetColumn(df, "Category",
                   [i \in DOMAIN df.rows |-> derive_category(df.rows[i], mapping, cfg_map)])
    ELSE df

\* linked_prs (app.py:224-227)
LinkedPRs(po) ==
    IF "PR_Number" \in po.cols
    THEN {Strip(Str(po.rows[i]["PR_Number"])) :
              i \in {j \in DOMAIN po.rows : ~IsNa(po.rows[j]["PR_Number"])}}
    ELSE {}

LowerAll(statuses) == {Lower(s) : s \in statuses}

\* is_pr_open without the linkage trigger
is_pr_open_status_only(row, linked_prs, pr_open_statuses) ==
    LET status == Lower(Str(Get(row, "PR_Status", StrCell(sEmpty))))
    IN  (status # sclosed) \/ (status \in pr_open_statuses)

is_pr_open(row, linked_prs, pr_open_statuses) ==
    LET status == Lower(Str(Get(row, "PR_Status", StrCell(sEmpty))))
        pr_no  == Strip(Str(Get(row, "PR_Number", StrCell(sEmpty))))
        linked == pr_no \in linked_prs
    IN  (status # sclosed) \/ (~linked) \/ (status \in pr_open_statuses)

\* is_po_open_delivery with `>= 0` for `> 0`
is_po_open_delivery_ge(row, po_open_statuses) ==
    LET status == Lower(Str(Get(row, "Delivery_Status", StrCell(sEmpty))))
        qty    == Get(row, "PO_Quantity", NoneCell)
        grn    == Get(row, "GRN_Quantity", NoneCell)
        outstanding ==
            IF ~IsNa(qty) /\ ~IsNa(grn) /\ Float(qty).ok /\ Float(grn).ok
            THEN Float(qty).v - Float(grn).v >= 0
            ELSE FALSE
    IN  outstanding \/ (status \in po_open_statuses) \/ (status = sopen)

is_po_open_delivery(row, po_open_statuses) ==
    LET status == Lower(Str(Get(row, "Delivery_Status", StrCell(sEmpty))))
        qty    == Get(row, "PO_Quantity", NoneCell)
        grn    == Get(row, "GRN_Quantity", NoneCell)
        outstanding ==
            IF ~IsNa(qty) /\ ~IsNa(grn) /\ Float(qty).ok /\ Float(grn).ok
            THEN Float(qty).v - Float(grn).v > 0
            ELSE FALSE
    IN  outstanding \/ (status \in po_open_statuses) \/ (status = sopen)

EmptyMetrics == [k \in {} |-> 0]

compute_metrics(prs_in, pos_in, pr_map, po_map, cfg) ==
    IF prs_in.none /\ pos_in.none
    THEN [metrics |-> EmptyMetrics, prs |-> EmptyDF, pos |-> EmptyDF]
    ELSE
    LET prs0 == IF prs_in.none THEN EmptyDF ELSE prs_in
        pos0 == IF pos_in.none THEN EmptyDF ELSE pos_in
        prs1 == unify(prs0, pr_map, REQUIRED_PRS_FIELDS, OPTIONAL_PRS_FIELDS)
        pos1 == unify(pos0, po_map, REQUIRED_POS_FIELDS, OPTIONAL_POS_FIELDS)
        prs2 == WithCategory(prs1, pr_map, cfg.category_mapping)
        pos2 == WithCategory(pos1, po_map, cfg.category_mapping)
        linked_prs == LinkedPRs(pos2)
        pr_open_statuses == LowerAll(cfg.pr_open_statuses)
        po_open_statuses == LowerAll(cfg.po_open_delivery_statuses)
        prs3 == SetColumn(prs2, "Is_Open_PR",
                    [i \in DOMAIN prs2.rows |->
                        BoolCell(is_pr_open(prs2.rows[i], linked_prs, pr_open_statuses))])
        pos3 == IF ~IsEmpty(pos2)
                THEN SetColumn(pos2, "Is_Open_Delivery_PO",
                         [i \in DOMAIN pos2.rows |->
                             BoolCell(is_po_open_delivery(pos2.rows[i], po_open_statuses))])
                ELSE pos2
    IN  [metrics |->
            (TOTAL_PRS :> (IF ~IsEmpty(prs3) THEN Len(prs3.rows) ELSE 0))
            @@ (TOTAL_POS :> (IF ~IsEmpty(pos3) THEN Len(pos3.rows) ELSE 0))
            @@ (OPEN_PRS :> (IF "Is_Open_PR" \in prs3.cols
                             THEN Count(prs3, "Is_Open_PR") ELSE 0))
            @@ (OPEN_DELIVERY_POS :> (IF "Is_Open_Delivery_PO" \in pos3.cols
                                      THEN Count(pos3, "Is_Open_Delivery_PO") ELSE 0)),
         prs |-> prs3,
         pos |-> pos3]

-----------------------------------------------------------------------------
(* Dashboard page: filters (app.py:388-427) *)

\* model granularity of time: a day has this many instants, the first is midnight
TicksPerDay == 2

\* pd.to_datetime(date): midnight of that day
to_datetime(day) == day * TicksPerDay

within_date(df, col, rng) ==
    IF IsEmpty(df) \/ col \notin df.cols \/ rng = <<>> \/ Len(rng) # 2
    THEN df
    ELSE LET start == to_datetime(rng[1])
             end   == to_datetime(rng[2])
         IN  Where(df, [i \in DOMAIN df.rows |->
                          /\ df.rows[i][col].t = "ts"
                          /\ df.rows[i][col].n >= start
                          /\ df.rows[i][col].n <= end])

\* df[df[col].isin(selected)] for a selection of texts
IsIn(df, col, selected) ==
    Where(df, [i \in DOMAIN df.rows |->
                 df.rows[i][col].t = "str" /\ df.rows[i][col].s \in selected])

\* the filter without its test for an empty selection
FilterAlways(df, col, selected) ==
    IF col \in df.cols THEN IsIn(df, col, selected) ELSE df

\* the lines `if <selection> and col in df.columns: df = df[df[col].isin(...)]`
FilterIfSelected(df, col, selected) ==
    IF selected # {} /\ col \in df.cols THEN IsIn(df, col, selected) ELSE df

ApplyPRFilters(df, f) ==
    LET d1 == within_date(df, "PR_Date", f.pr_date_rng)
        d2 == FilterIfSelected(d1, "Category", f.categories_filter)
        d3 == FilterIfSelected(d2, "Buyer", f.buyer_filter)
    IN  FilterIfSelected(d3, "PR_Status", f.status_filter_pr)

ApplyPOFilters(df, f) ==
    LET d1 == within_date(df, "PO_Date", f.po_date_rng)
        d2 == FilterIfSelected(d1, "Category", f.categories_filter)
        d3 == FilterIfSelected(d2, "Vendor", f.vendor_filter)
    IN  FilterIfSelected(d3, "PO_Status", f.status_filter_po)

\* sorted(df[col].dropna().unique()) if col in df.columns else []: the options
\* a multiselect offers
Options(df, col) ==
    IF col \in df.cols
    THEN {df.rows[i][col].s : i \in {j \in DOMAIN df.rows : df.rows[j][col].t = "str"}}
    ELSE {}

CategorySet == {CATEGORIES[i] : i \in DOMAIN CATEGORIES}

\* what the widgets can hold for the annotated tables p and o
WidgetsOffer(f, p, o) ==
    /\ f.categories_filter \subseteq CategorySet
    /\ f.vendor_filter \subseteq Options(o, "Vendor")
    /\ f.buyer_filter \subseteq Options(p, "Buyer")
    /\ f.status_filter_pr \subseteq Options(p, "PR_Status")
    /\ f.status_filter_po \subseteq Options(o, "PO_Status")

\* the widgets as the page first shows them: every category selected, no other
\* selection, and date ranges rp and ro
Widgets(rp, ro, cats, vendors, buyers, st_pr, st_po) ==
    [pr_date_rng |-> rp, po_date_rng |-> ro, categories_filter |-> cats,
     vendor_filter |-> vendors, buyer_filter |-> buyers,
     status_filter_pr |-> st_pr, status_filter_po |-> st_po]

DefaultWidgets == Widgets(<<>>, <<>>, CategorySet, {}, {}, {}, {})

ClearedWidgets == Widgets(<<>>, <<>>, {}, {}, {}, {}, {})

NoMapping == [k \in {} |-> ""]

-----------------------------------------------------------------------------
(* Upload page: writes of the category lookup (app.py:331-343, 357-366) *)

\* str(r.get('Key_Field', '')).strip()
EntryKey(r) == Strip(Str(Get(r, "Key_Field", StrCell(sEmpty))))

\* str(r.get('Category', '')).strip()
EntryCat(r) == Strip(Str(Get(r, "Category", StrCell(sEmpty))))

\* the test `if key and cat in CATEGORIES` without its test of the label
EntryIsStoredAnyLabel(key, cat) == key # sEmpty

\* `if key and cat in CATEGORIES`
EntryIsStored(key, cat) == key # sEmpty /\ InCategories(cat)

\* d[key] = val
Put(d, key, val) == (key :> val) @@ d

\* the loop over iterrows() from row i on, writing into the dict d
RECURSIVE StoreEntries(_, _, _)
StoreEntries(d, rows, i) ==
    IF i > Len(rows) THEN d
    ELSE LET key == EntryKey(rows[i])
             cat == EntryCat(rows[i])
         IN  StoreEntries(IF EntryIsStored(key, cat) THEN Put(d, key, cat) ELSE d,
                          rows, i + 1)

\* config.setdefault('category_mapping', {}) written entry by entry
ImportEntries(cfg, sheet) ==
    [cfg EXCEPT !.category_mapping = StoreEntries(@, sheet.rows, 1)]

\* new_map built from nothing, then config['category_mapping'] = new_map
SaveEntries(cfg, edited) ==
    [cfg EXCEPT !.category_mapping = StoreEntries(NoMapping, edited.rows, 1)]

-----------------------------------------------------------------------------
(* The Dashboard page script (app.py:378-430), one action per call *)

PrMap == config.column_mapping.PRs
PoMap == config.column_mapping.POs

\* app.py:386
ComputeMetricsStep ==
    /\ pc = "start"
    /\ LET r == compute_metrics(prs_df, pos_df, PrMap, PoMap, config)
       IN  /\ metrics' = r.metrics
           /\ prs' = r.prs
           /\ pos' = r.pos
    /\ pc' = "computed"
    /\ UNCHANGED <<config, prs_df, pos_df, filters, prs_f, pos_f, metrics_f, args, ret>>

\* app.py:408-427
ApplyFiltersStep ==
    /\ pc = "computed"
    /\ prs_f' = ApplyPRFilters(prs, filters)
    /\ pos_f' = ApplyPOFilters(pos, filters)
    /\ pc' = "filtered"
    /\ UNCHANGED <<config, prs_df, pos_df, metrics, prs, pos, filters, metrics_f, args, ret>>

\* app.py:430
RecomputeStep ==
    /\ pc = "filtered"
    /\ metrics_f' = compute_metrics(prs_f, pos_f, PrMap, PoMap, config).metrics
    /\ pc' = "done"
    /\ UNCHANGED <<config, prs_df, pos_df, metrics, prs, pos, filters, prs_f, pos_f, args, ret>>

NoArgs == [row |-> <<>>, mapping |-> <<>>, cfg_mapping |-> <<>>]

\* a direct call derive_category(row, mapping, cfg_mapping)
DeriveCategoryCall ==
    /\ pc = "call"
    /\ ret' = derive_category(args.row, args.mapping, args.cfg_mapping)
    /\ pc' = "returned"
    /\ UNCHANGED <<config, prs_df, pos_df, metrics, prs, pos, filters, prs_f, pos_f,
                   metrics_f, args>>

Next == ComputeMetricsStep \/ ApplyFiltersStep \/ RecomputeStep

-----------------------------------------------------------------------------
(* Inputs *)

\* most rows of an uploaded sheet
MaxRows == 2

\* the days a date widget can be set to are 0..MaxDay
MaxDay == 2

\* rows over the columns DOMAIN dom, the cell of column c drawn from dom[c]
RowsOver(dom) ==
    {r \in [DOMAIN dom -> UNION {dom[c] : c \in DOMAIN dom}] :
        \A c \in DOMAIN dom : r[c] \in dom[c]}

\* sheets of at most MaxRows such rows
SheetsOver(dom) ==
    {Frame(DOMAIN dom, rs) : rs \in UNION {[1..k -> RowsOver(dom)] : k \in 0..MaxRows}}

Cells(texts) == {StrCell(s) : s \in texts}

\* DEFAULT_CONFIG (app.py:20-37)
DEFAULT_PR_OPEN == {sOpen, sPending, sInProgress}
DEFAULT_PO_OPEN == {sOpen, sPartial, sDelayed}

Config(pr_open, po_open, cat_map, pr_map, po_map) ==
    [pr_open_statuses |-> pr_open,
     po_open_delivery_statuses |-> po_open,
     category_mapping |-> cat_map,
     column_mapping |-> [PRs |-> pr_map, POs |-> po_map]]

\* a field mapping as column_mapper saves it: every field of the sheet, the
\* unnamed ones not mapped
MappingOf(fields, named) ==
    [k \in {fields[i] : i \in DOMAIN fields} |->
        IF k \in DOMAIN named THEN named[k] ELSE NOT_MAPPED]

PRMapping(named) == MappingOf(REQUIRED_PRS_FIELDS \o OPTIONAL_PRS_FIELDS, named)
POMapping(named) == MappingOf(REQUIRED_POS_FIELDS \o OPTIONAL_POS_FIELDS, named)

\* the page before its first line has run, on the given inputs
Start(p, o, cfg, f) ==
    /\ prs_df = p
    /\ pos_df = o
    /\ config = cfg
    /\ filters = f
    /\ (p.none \/ RenameIsInjective(p, cfg.column_mapping.PRs,
                                    REQUIRED_PRS_FIELDS \o OPTIONAL_PRS_FIELDS))
    /\ (o.none \/ RenameIsInjective(o, cfg.column_mapping.POs,
                                    REQUIRED_POS_FIELDS \o OPTIONAL_POS_FIELDS))
    /\ metrics = EmptyMetrics
    /\ prs = EmptyDF
    /\ pos = EmptyDF
    /\ prs_f = EmptyDF
    /\ pos_f = EmptyDF
    /\ metrics_f = EmptyMetrics
    /\ args = NoArgs
    /\ ret = NoneCell
    /\ pc = "start"

(* PR openness: PR numbers and statuses against the PR references of the POs *)

PRLinkageSheets ==
    SheetsOver([PRNo |-> Cells({sPR1Padded, sPR2}),
                Status |-> Cells({sClosed, sClosedSp, sOpen}) \cup {NaN}])

POLinkageSheets ==
    SheetsOver([PRRef |-> Cells({sPR1Padded}) \cup {NaN}])
    \cup {Frame({"PONo"}, <<[PONo |-> StrCell(sPR1)]>>), NoneDF}

PRLinkageConfigs ==
    {Config(st, DEFAULT_PO_OPEN, NoMapping,
            PRMapping([PR_Number |-> "PRNo", PR_Status |-> "Status"]),
            POMapping([PR_Number |-> "PRRef", PO_Number |-> "PONo"])) :
        st \in {DEFAULT_PR_OPEN, {sCLOSED}, {}}}

InitPR ==
    \E p \in PRLinkageSheets, o \in POLinkageSheets, cfg \in PRLinkageConfigs :
        Start(p, o, cfg, ClearedWidgets)

SpecPR == InitPR /\ [][Next]_vars

(* PO delivery openness: quantities and delivery statuses *)

PODeliverySheets ==
    SheetsOver([Qty |-> {NumCell(2), StrCell(sTwoPadded), NaN},
                GRN |-> {NumCell(1), NumCell(2), StrCell(sNA)},
                Delivery |-> Cells({sOPEN, sClosed})])

OnePRSheet == Frame({"PRNo", "Status"}, <<[PRNo |-> StrCell(sPR1), Status |-> StrCell(sOpen)]>>)

PODeliveryConfigs ==
    {Config(DEFAULT_PR_OPEN, st, NoMapping,
            PRMapping([PR_Number |-> "PRNo", PR_Status |-> "Status"]),
            POMapping([PO_Quantity |-> "Qty", GRN_Quantity |-> "GRN",
                       Delivery_Status |-> "Delivery"])) :
        st \in {DEFAULT_PO_OPEN, {sCLOSED}, {}}}

InitPO ==
    \E o \in PODeliverySheets, cfg \in PODeliveryConfigs :
        Start(OnePRSheet, o, cfg, ClearedWidgets)

SpecPO == InitPO /\ [][Next]_vars

(* Categories: explicit Category columns and key fields, under raw column    *)
(* names that differ from the canonical names and under names that coincide  *)

\* a sheet layout: the cells of each raw column, and the fields mapped to them
PRCategoryLayouts ==
    { [dom   |-> [MatGrp |-> Cells({sSteel, sSteelPad, sCC7})],
       named |-> [Material_Group |-> "MatGrp"]],
      [dom   |-> [Material_Group |-> Cells({sSteel, sSteelPad, sIT3}),
                  Cost_Center |-> Cells({sCC7, sIT3})],
       named |-> [Material_Group |-> "Material_Group", Cost_Center |-> "Cost_Center"]],
      [dom   |-> [Cat |-> Cells({sMRO, sMROPadded, sMisc}) \cup {NaN},
                  Material_Group |-> Cells({sSteel, sIT3})],
       named |-> [Category |-> "Cat", Material_Group |-> "Material_Group"]],
      [dom   |-> [Category |-> Cells({sPCM, sMroLower})],
       named |-> [PR_Number |-> "PRNo"]] }

POCategorySheets ==
    { NoneDF,
      Frame({"Cat"}, <<[Cat |-> StrCell(sPCM)]>>),
      Frame({"Cat"}, <<[Cat |-> StrCell(sMisc)]>>),
      Frame({"PONo"}, <<[PONo |-> StrCell(sPR1)]>>) }

CategoryLookups ==
    { NoMapping,
      (sSteel :> sMRO) @@ (sCC7 :> sServices),
      (sSteel :> sMisc) @@ (sCC7 :> sCapex) }

InitCategory ==
    \E l \in PRCategoryLayouts, o \in POCategorySheets, cm \in CategoryLookups :
        \E p \in SheetsOver(l.dom) :
            Start(p, o,
                  Config(DEFAULT_PR_OPEN, DEFAULT_PO_OPEN, cm, PRMapping(l.named),
                         POMapping([Category |-> "Cat", PO_Number |-> "PONo"])),
                  DefaultWidgets)

SpecCategory == InitCategory /\ [][Next]_vars

(* derive_category called directly on a row *)

DeriveRows ==
    RowsOver([Cat |-> Cells({sMRO, sMROPadded, sMisc}),
              MG  |-> Cells({sSteel, sNA}),
              CC  |-> Cells({sCC7, sNA}),
              IT  |-> Cells({sIT3, sNA})])

DeriveMappings ==
    { [Category |-> c, Material_Group |-> m, Cost_Center |-> k, Item_Type |-> t] :
        c \in {"Cat", NOT_MAPPED}, m \in {"MG", NOT_MAPPED},
        k \in {"CC", NOT_MAPPED}, t \in {"IT", NOT_MAPPED} }

DeriveLookups ==
    { (sSteel :> sServices) @@ (sCC7 :> sCapex) @@ (sIT3 :> sPCM),
      (sSteel :> sMisc) @@ (sCC7 :> sCapex) @@ (sIT3 :> sPCM),
      (sIT3 :> sPCM) }

InitDerive ==
    /\ args \in [row : DeriveRows, mapping : DeriveMappings, cfg_mapping : DeriveLookups]
    /\ ret = NoneCell
    /\ pc = "call"
    /\ config = Config(DEFAULT_PR_OPEN, DEFAULT_PO_OPEN, NoMapping, NoMapping, NoMapping)
    /\ prs_df = NoneDF
    /\ pos_df = NoneDF
    /\ filters = DefaultWidgets
    /\ metrics = EmptyMetrics
    /\ prs = EmptyDF
    /\ pos = EmptyDF
    /\ prs_f = EmptyDF
    /\ pos_f = EmptyDF
    /\ metrics_f = EmptyMetrics

SpecDerive == InitDerive /\ [][DeriveCategoryCall]_vars

(* Absent and empty sheets *)

AbsentOrEmptySheets(cols) == {NoneDF, EmptyDF, Frame(cols, <<>>)}

InitEmpty ==
    \E p \in AbsentOrEmptySheets({"PRNo", "Status"})
             \cup SheetsOver([PRNo |-> Cells({sPR1}), Status |-> Cells({sClosed, sOpen})]),
       o \in AbsentOrEmptySheets({"PRRef", "Delivery"})
             \cup SheetsOver([PRRef |-> Cells({sPR1}), Delivery |-> Cells({sOPEN, sClosed})]),
       f \in {DefaultWidgets, ClearedWidgets} :
        Start(p, o,
              Config(DEFAULT_PR_OPEN, DEFAULT_PO_OPEN, NoMapping,
                     PRMapping([PR_Number |-> "PRNo", PR_Status |-> "Status"]),
                     POMapping([PR_Number |-> "PRRef", Delivery_Status |-> "Delivery"])),
              f)

SpecEmpty == InitEmpty /\ [][Next]_vars

(* Date ranges: datetimes at every instant of the days 0..MaxDay, and missing *)

Instants == 0 .. (MaxDay * TicksPerDay + TicksPerDay - 1)

\* what st.date_input returns: nothing, one day while the range is being
\* picked, or a range of two days
DateRanges ==
    {<<>>} \cup {<<d>> : d \in 0..MaxDay}
    \cup {<<d1, d2>> : d1 \in 0..MaxDay, d2 \in 0..MaxDay}

DatedPRSheets == SheetsOver([Date |-> {TsCell(n) : n \in Instants} \cup {NaN}])

DatedPOSheet ==
    Frame({"Date"}, <<[Date |-> TsCell(TicksPerDay + 1)], [Date |-> TsCell(0)]>>)

InitDate ==
    \E p \in DatedPRSheets, rp \in {r \in DateRanges : Len(r) < 2 \/ r[1] <= r[2]},
       ro \in {<<>>, <<1, 1>>} :
        Start(p, DatedPOSheet,
              Config(DEFAULT_PR_OPEN, DEFAULT_PO_OPEN, NoMapping,
                     PRMapping([PR_Date |-> "Date"]), POMapping([PO_Date |-> "Date"])),
              Widgets(rp, ro, {}, {}, {}, {}, {}))

SpecDate == InitDate /\ [][Next]_vars

(* The filter widgets: a few rows with every filtered column, and each widget *)
(* empty or holding a selection                                              *)

FilterPRRows ==
    { [Material_Group |-> StrCell(sSteel), Buyer |-> StrCell(sAnn),
       Status |-> StrCell(sOpen), Date |-> TsCell(0), PRNo |-> StrCell(sPR1)],
      [Material_Group |-> StrCell(sCC7), Buyer |-> StrCell(sBob),
       Status |-> StrCell(sClosed), Date |-> NaN, PRNo |-> StrCell(sPR2)] }

FilterPRSheets ==
    {Frame({"Material_Group", "Buyer", "Status", "Date", "PRNo"}, rs) :
        rs \in UNION {[1..k -> FilterPRRows] : k \in 0..MaxRows}}

FilterPOSheets ==
    { NoneDF,
      Frame({"Cat", "Vendor", "POStatus", "Date", "PRRef"},
            << [Cat |-> StrCell(sPCM), Vendor |-> StrCell(sAcme),
                POStatus |-> StrCell(sOpen), Date |-> TsCell(TicksPerDay + 1),
                PRRef |-> StrCell(sPR1)],
               [Cat |-> StrCell(sMisc), Vendor |-> StrCell(sBolt),
                POStatus |-> StrCell(sClosed), Date |-> TsCell(0),
                PRRef |-> StrCell(sPR2)] >>) }

FilterWidgets ==
    { Widgets(rp, ro, c, v, b, sp, so) :
        rp \in {<<>>, <<0>>, <<0, 1>>}, ro \in {<<>>, <<1, 1>>},
        c \in {CategorySet, {}, {sMRO}},
        v \in {{}, {sAcme}}, b \in {{}, {sAnn}},
        sp \in {{}, {sOpen}}, so \in {{}, {sClosed}} }

FilterConfig ==
    Config(DEFAULT_PR_OPEN, DEFAULT_PO_OPEN, (sSteel :> sMRO) @@ (sCC7 :> sMisc),
           PRMapping([Material_Group |-> "Material_Group", PR_Status |-> "Status",
                      PR_Date |-> "Date", PR_Number |-> "PRNo"]),
           POMapping([Category |-> "Cat", PO_Status |-> "POStatus",
                      PO_Date |-> "Date", PR_Number |-> "PRRef"]))

\* the widgets hold only selections that the annotated tables offer
Init ==
    \E p \in FilterPRSheets, o \in FilterPOSheets :
        LET r == compute_metrics(p, o, FilterConfig.column_mapping.PRs,
                                 FilterConfig.column_mapping.POs, FilterConfig)
        IN  \E f \in {w \in FilterWidgets : WidgetsOffer(w, r.prs, r.pos)} :
                Start(p, o, FilterConfig, f)

Spec == Init /\ [][Next]_vars

(* Missing fields: sheets without the status and quantity columns that the  *)
(* saved mapping names, beside sheets that have them                         *)

MissingFieldPRSheets ==
    SheetsOver([PRNo |-> Cells({sPR1, sPR2})])
    \cup SheetsOver([PRNo |-> Cells({sPR1}), Status |-> Cells({sClosed, sOpen})])

MissingFieldPOSheets ==
    SheetsOver([PRRef |-> Cells({sPR1}) \cup {NaN}])
    \cup SheetsOver([PRRef |-> Cells({sPR1}), Delivery |-> Cells({sOpen})])
    \cup {NoneDF}

MissingFieldConfig ==
    Config(DEFAULT_PR_OPEN, DEFAULT_PO_OPEN, NoMapping,
           PRMapping([PR_Number |-> "PRNo", PR_Status |-> "Status"]),
           POMapping([PR_Number |-> "PRRef", Delivery_Status |-> "Delivery",
                      PO_Quantity |-> "Qty", GRN_Quantity |-> "GRN"]))

InitMissing ==
    \E p \in MissingFieldPRSheets, o \in MissingFieldPOSheets :
        Start(p, o, MissingFieldConfig, ClearedWidgets)

SpecMissing == InitMissing /\ [][Next]_vars

(* The Upload page: Category_Mapping sheets imported and editor tables saved, *)
(* in any order, onto a lookup table that starts empty                        *)

\* rows of a Category_Mapping sheet or of the editor: padded keys and labels,
\* a label outside the four, an empty key, a missing key
CategoryEntries ==
    { [Key_Field |-> StrCell(sPR1Padded), Category |-> StrCell(sMRO)],
      [Key_Field |-> StrCell(sPR1),       Category |-> StrCell(sCapex)],
      [Key_Field |-> StrCell(sIT3),       Category |-> StrCell(sMisc)],
      [Key_Field |-> StrCell(sIT3),       Category |-> StrCell(sMROPadded)],
      [Key_Field |-> StrCell(sEmpty),     Category |-> StrCell(sPCM)],
      [Key_Field |-> NaN,                 Category |-> StrCell(sMroLower)] }

CategoryTables ==
    {Frame({"Key_Field", "Category"}, rs) :
        rs \in UNION {[1..k -> CategoryEntries] : k \in 0..MaxRows}}

OnUploadPage == pc \in {"upload", "imported", "saved"}

\* app.py:331-343: a rerun of the page with a non-empty Category_Mapping sheet
ImportCategoryMapping ==
    /\ OnUploadPage
    /\ \E cat_map_df \in CategoryTables :
          /\ ~cat_map_df.none /\ ~IsEmpty(cat_map_df)
          /\ config' = ImportEntries(config, cat_map_df)
          /\ args' = [table |-> cat_map_df]
    /\ pc' = "imported"
    /\ UNCHANGED <<prs_df, pos_df, metrics, prs, pos, filters, prs_f, pos_f,
                   metrics_f, ret>>

\* app.py:357-366: the button, on the table the editor holds
SaveCategoryMapping ==
    /\ OnUploadPage
    /\ \E edited \in CategoryTables :
          /\ config' = SaveEntries(config, edited)
          /\ args' = [table |-> edited]
    /\ pc' = "saved"
    /\ UNCHANGED <<prs_df, pos_df, metrics, prs, pos, filters, prs_f, pos_f,
                   metrics_f, ret>>

UploadNext == ImportCategoryMapping \/ SaveCategoryMapping

InitLookup ==
    /\ config = Config(DEFAULT_PR_OPEN, DEFAULT_PO_OPEN, NoMapping, NoMapping, NoMapping)
    /\ args = [table |-> EmptyDF]
    /\ pc = "upload"
    /\ ret = NoneCell
    /\ prs_df = NoneDF
    /\ pos_df = NoneDF
    /\ filters = DefaultWidgets
    /\ metrics = EmptyMetrics
    /\ prs = EmptyDF
    /\ pos = EmptyDF
    /\ prs_f = EmptyDF
    /\ pos_f = EmptyDF
    /\ metrics_f = EmptyMetrics

SpecLookup == InitLookup /\ [][UploadNext]_vars

-----------------------------------------------------------------------------
(* Claims *)

Computed == pc \in {"computed", "filtered", "done"}

RowsOf(df) == {df.rows[i] : i \in DOMAIN df.rows}

(* C1 *)

C1_Status(r) == Lower(Str(r["PR_Status"]))

\* some PO row carries, trimmed, the trimmed PR number of r
C1_Linked(r) ==
    /\ "PR_Number" \in pos.cols
    /\ \E j \in DOMAIN pos.rows :
          /\ ~IsNa(pos.rows[j]["PR_Number"])
          /\ Strip(Str(pos.rows[j]["PR_Number"])) = Strip(Str(r["PR_Number"]))

C1_ConfiguredOpen(r) ==
    \E s \in config.pr_open_statuses : Lower(s) = C1_Status(r)

\* C1: after compute_metrics every PR row has Is_Open_PR true exactly when its
\* lower-cased status is not "closed", or its trimmed number is not among the
\* trimmed PR numbers of the PO table, or its lower-cased status is in the
\* lower-cased configured PR-open list.
Thm_C1_PROpenIffAnyTrigger ==
    Computed =>
        /\ "Is_Open_PR" \in prs.cols
        /\ \A r \in RowsOf(prs) :
              (r["Is_Open_PR"] = BoolCell(TRUE))
              <=> \/ C1_Status(r) # sclosed
                  \/ ~C1_Linked(r)
                  \/ C1_ConfiguredOpen(r)

\* a closed PR that is linked and not configured open is not open, beside a
\* closed PR that is open only because no PO refers to it
Wit_C1_ClosedLinkedAndClosedUnlinked ==
    /\ pc = "computed"
    /\ \E r \in RowsOf(prs) :
          /\ C1_Status(r) = sclosed /\ C1_Linked(r) /\ ~C1_ConfiguredOpen(r)
          /\ r["Is_Open_PR"] = BoolCell(FALSE)
    /\ \E r \in RowsOf(prs) :
          /\ C1_Status(r) = sclosed /\ ~C1_Linked(r) /\ ~C1_ConfiguredOpen(r)
          /\ r["Is_Open_PR"] = BoolCell(TRUE)

(* C2 *)

\* the quantity of a cell, where it is present and numeric
C2_HasQuantity(r, col) == col \in DOMAIN r /\ ~IsNa(r[col]) /\ Float(r[col]).ok

C2_Outstanding(r) ==
    /\ C2_HasQuantity(r, "PO_Quantity")
    /\ C2_HasQuantity(r, "GRN_Quantity")
    /\ Float(r["PO_Quantity"]).v > Float(r["GRN_Quantity"]).v

C2_Status(r) == Lower(Str(r["Delivery_Status"]))

C2_ConfiguredOpen(r) ==
    \E s \in config.po_open_delivery_statuses : Lower(s) = C2_Status(r)

\* C2: after compute_metrics every PO row has Is_Open_Delivery_PO true exactly
\* when both quantities are present and numeric with PO_Quantity above
\* GRN_Quantity, or its lower-cased delivery status is in the lower-cased
\* configured list, or that status is "open"; a quantity that is missing or no
\* number fires nothing and the pass still annotates every row.
Thm_C2_POOpenIffAnyTrigger ==
    (Computed /\ ~IsEmpty(pos)) =>
        /\ "Is_Open_Delivery_PO" \in pos.cols
        /\ Len(pos.rows) = Len(pos_df.rows)
        /\ \A r \in RowsOf(pos) :
              (r["Is_Open_Delivery_PO"] = BoolCell(TRUE))
              <=> \/ C2_Outstanding(r)
                  \/ C2_ConfiguredOpen(r)
                  \/ C2_Status(r) = sopen

\* equal quantities with status "Closed" outside the configured list: not open;
\* beside it a row whose received quantity is no number, not open either
Wit_C2_NothingOutstanding ==
    /\ pc = "computed"
    /\ \E r \in RowsOf(pos) :
          /\ r["PO_Quantity"] = NumCell(2) /\ r["GRN_Quantity"] = NumCell(2)
          /\ r["Delivery_Status"] = StrCell(sClosed)
          /\ r["Is_Open_Delivery_PO"] = BoolCell(FALSE)
    /\ \E r \in RowsOf(pos) :
          /\ r["PO_Quantity"] = NumCell(2) /\ r["GRN_Quantity"] = StrCell(sNA)
          /\ r["Is_Open_Delivery_PO"] = BoolCell(FALSE)

(* C3 *)

C3_LabelOrUnknown(c) == IsNa(c) \/ (c.t = "str" /\ InCategories(c.s))

\* C3: every row of the annotated PR and PO tables has a Category that is one
\* of MRO, Services, Capex, PCM or unknown, for any cells, mapping and lookup.
Claim_C3_CategoryIsLabelOrUnknown ==
    Computed =>
        /\ \A r \in RowsOf(prs) : "Category" \in DOMAIN r => C3_LabelOrUnknown(r["Category"])
        /\ \A r \in RowsOf(pos) : "Category" \in DOMAIN r => C3_LabelOrUnknown(r["Category"])

(* C4 *)

\* the label the lookup table gives the row's trimmed value under the raw
\* column mapped to field; NoneCell when it gives no valid label
C4_LookedUp(rawrow, mapping, field) ==
    IF IsMapped(mapping, field) /\ mapping[field] \in DOMAIN rawrow
    THEN LET key == Strip(Str(rawrow[mapping[field]]))
         IN  IF key \in DOMAIN config.category_mapping
                /\ InCategories(config.category_mapping[key])
             THEN StrCell(config.category_mapping[key])
             ELSE NoneCell
    ELSE NoneCell

\* C4: with Category not mapped and Material_Group mapped to an existing raw
\* column, whatever its name, a row whose trimmed value there is a key of the
\* lookup table with a valid label is annotated with that label.
Claim_C4_MaterialGroupLookupResolves ==
    (Computed /\ ~prs_df.none) =>
        \A i \in DOMAIN prs_df.rows :
            (/\ ~IsMapped(PrMap, "Category")
             /\ "Category" \notin prs_df.cols
             /\ C4_LookedUp(prs_df.rows[i], PrMap, "Material_Group") # NoneCell)
            => /\ "Category" \in prs.cols
               /\ prs.rows[i]["Category"] =
                      C4_LookedUp(prs_df.rows[i], PrMap, "Material_Group")

(* C5 *)

\* the explicit Category column is mapped to a raw column of the sheet and the
\* row's trimmed value there is none of the four labels
C5_InvalidExplicit(rawrow, mapping) ==
    /\ IsMapped(mapping, "Category")
    /\ mapping["Category"] \in DOMAIN rawrow
    /\ ~InCategories(Strip(Str(rawrow[mapping["Category"]])))

\* the label of the first of Material_Group, Cost_Center, Item_Type that gives one
C5_NextTier(rawrow, mapping) ==
    IF C4_LookedUp(rawrow, mapping, "Material_Group") # NoneCell
    THEN C4_LookedUp(rawrow, mapping, "Material_Group")
    ELSE IF C4_LookedUp(rawrow, mapping, "Cost_Center") # NoneCell
    THEN C4_LookedUp(rawrow, mapping, "Cost_Center")
    ELSE C4_LookedUp(rawrow, mapping, "Item_Type")

\* C5: a row whose mapped explicit Category value is not one of the four labels
\* gets the label of the next tier (a key field whose value is a lookup key
\* with a valid label), else unknown; the invalid value is never kept.
Claim_C5_InvalidExplicitFallsThrough ==
    (Computed /\ ~prs_df.none) =>
        \A i \in DOMAIN prs_df.rows :
            C5_InvalidExplicit(prs_df.rows[i], PrMap)
            => LET expected == C5_NextTier(prs_df.rows[i], PrMap)
                   actual   == prs.rows[i]["Category"]
               IN  IF expected = NoneCell THEN IsNa(actual) ELSE actual = expected

(* C6 *)

C6_Order == <<"Category", "Material_Group", "Cost_Center", "Item_Type">>

\* the label tier i gives the row of the call; <<>> when it gives none
C6_TierLabel(i) ==
    LET field == C6_Order[i]
        col   == args.mapping[field]
    IN  IF col = NOT_MAPPED \/ col \notin DOMAIN args.row THEN <<>>
        ELSE LET v == Strip(Str(args.row[col]))
             IN  IF i = 1
                 THEN (IF InCategories(v) THEN v ELSE <<>>)
                 ELSE IF v \in DOMAIN args.cfg_mapping /\ InCategories(args.cfg_mapping[v])
                      THEN args.cfg_mapping[v]
                      ELSE <<>>

C6_Yielding == {i \in DOMAIN C6_Order : C6_TierLabel(i) # <<>>}

\* C6: derive_category returns the label of the earliest tier, in the order
\* Category, Material_Group, Cost_Center, Item_Type, that gives a valid label,
\* and None when no tier gives one; a later tier never overrides an earlier one.
Thm_C6_EarliestTierWins ==
    pc = "returned" =>
        IF C6_Yielding = {} THEN ret = NoneCell
        ELSE ret = StrCell(C6_TierLabel(CHOOSE i \in C6_Yielding :
                                            \A j \in C6_Yielding : i <= j))

\* every tier gives a label, the labels of tiers differ, and the call returned
\* the explicit one
Wit_C6_AllTiersCompete ==
    /\ pc = "returned"
    /\ C6_Yielding = DOMAIN C6_Order
    /\ \A i, j \in C6_Yielding : i # j => C6_TierLabel(i) # C6_TierLabel(j)
    /\ ret = StrCell(C6_TierLabel(1))

(* C7 *)

C7_Absent(df) == df.none \/ IsEmpty(df)

C7_Zero(key) == key \in DOMAIN metrics /\ metrics[key] = 0

\* C7: with both tables absent or empty compute_metrics returns exactly the
\* four counts, all 0, and empty annotated tables; with one table absent or
\* empty that table's counts are 0.
Claim_C7_AbsentInputsGiveFourZeroCounts ==
    Computed =>
        /\ (C7_Absent(prs_df) /\ C7_Absent(pos_df)) =>
              /\ DOMAIN metrics = {TOTAL_PRS, TOTAL_POS, OPEN_PRS, OPEN_DELIVERY_POS}
              /\ \A k \in DOMAIN metrics : metrics[k] = 0
              /\ IsEmpty(prs) /\ IsEmpty(pos)
        /\ C7_Absent(prs_df) => (C7_Zero(TOTAL_PRS) /\ C7_Zero(OPEN_PRS))
        /\ C7_Absent(pos_df) => (C7_Zero(TOTAL_POS) /\ C7_Zero(OPEN_DELIVERY_POS))

(* C8 *)

\* the row's category is unknown: derive_category gave None
C8_Unknown(r) == "Category" \in DOMAIN r /\ r["Category"] = NoneCell

C8_UnknownCount(df) == Cardinality({i \in DOMAIN df.rows : C8_Unknown(df.rows[i])})

\* C8: with no category deselected (and no other filter set) every PR and PO
\* row of unknown category is still in the filtered tables and still counted
\* in Total PRs / Total POs.
Claim_C8_UnknownRowsStayByDefault ==
    (pc = "done" /\ filters = DefaultWidgets) =>
        /\ C8_UnknownCount(prs_f) = C8_UnknownCount(prs)
        /\ C8_UnknownCount(pos_f) = C8_UnknownCount(pos)
        /\ TOTAL_PRS \in DOMAIN metrics_f /\ metrics_f[TOTAL_PRS] >= C8_UnknownCount(prs)
        /\ TOTAL_POS \in DOMAIN metrics_f /\ metrics_f[TOTAL_POS] >= C8_UnknownCount(pos)

(* C9 *)

Filtered == pc \in {"filtered", "done"}

\* the calendar day of a datetime
C9_Day(c) == c.n \div TicksPerDay

\* C9: for a selected range of days [start, end] the date filter keeps a dated
\* row exactly when its day is the start day, the end day or one between
\* them, at any time of that day.
Claim_C9_DateRangeInclusiveByDay ==
    (Filtered /\ Len(filters.pr_date_rng) = 2 /\ "PR_Date" \in prs.cols) =>
        \A r \in RowsOf(prs) :
            r["PR_Date"].t = "ts" =>
                ((r \in RowsOf(prs_f))
                 <=> /\ C9_Day(r["PR_Date"]) >= filters.pr_date_rng[1]
                     /\ C9_Day(r["PR_Date"]) <= filters.pr_date_rng[2])

(* C10 *)

C10_Selected(r, col, selected) ==
    (selected # {} /\ col \in DOMAIN r) => (r[col].t = "str" /\ r[col].s \in selected)

C10_InRange(r, col, rng) ==
    (Len(rng) = 2 /\ col \in DOMAIN r) =>
        /\ r[col].t = "ts"
        /\ r[col].n >= to_datetime(rng[1])
        /\ r[col].n <= to_datetime(rng[2])

\* the predicates that are set, each empty one passing every row
C10_PRPasses(r) ==
    /\ C10_InRange(r, "PR_Date", filters.pr_date_rng)
    /\ C10_Selected(r, "Category", filters.categories_filter)
    /\ C10_Selected(r, "Buyer", filters.buyer_filter)
    /\ C10_Selected(r, "PR_Status", filters.status_filter_pr)

C10_POPasses(r) ==
    /\ C10_InRange(r, "PO_Date", filters.po_date_rng)
    /\ C10_Selected(r, "Category", filters.categories_filter)
    /\ C10_Selected(r, "Vendor", filters.vendor_filter)
    /\ C10_Selected(r, "PO_Status", filters.status_filter_po)

\* C10: an empty predicate removes no row: the filtered tables hold, in order,
\* exactly the rows that pass the predicates that are set; with every
\* predicate empty they equal the annotated tables; and the annotated tables
\* are still what compute_metrics returned.
Thm_C10_EmptyPredicateIsNoOp ==
    Filtered =>
        /\ prs_f = Frame(prs.cols, SelectSeq(prs.rows, C10_PRPasses))
        /\ pos_f = Frame(pos.cols, SelectSeq(pos.rows, C10_POPasses))
        /\ (filters = ClearedWidgets) => (prs_f = prs /\ pos_f = pos)
        /\ LET r == compute_metrics(prs_df, pos_df, PrMap, PoMap, config)
           IN  prs = r.prs /\ pos = r.pos

\* every predicate empty over two PR rows, one of unknown category, and two PO
\* rows: all of them are in the filtered tables
Wit_C10_AllPredicatesEmpty ==
    /\ pc = "filtered"
    /\ filters = ClearedWidgets
    /\ Len(prs.rows) = 2 /\ Len(pos.rows) = 2
    /\ \E r \in RowsOf(prs) : C8_Unknown(r)
    /\ prs_f = prs /\ pos_f = pos

(* C11 *)

CategoryMap == config.category_mapping

\* the rows of the last write whose trimmed key is k and that carry a valid label
C11_ValidRows(table, k) ==
    {i \in DOMAIN table.rows :
        /\ EntryKey(table.rows[i]) = k
        /\ k # sEmpty
        /\ InCategories(EntryCat(table.rows[i]))}

C11_Last(S) == CHOOSE i \in S : \A j \in S : j <= i

C11_TableValid ==
    \A k \in DOMAIN CategoryMap :
        /\ InCategories(CategoryMap[k])
        /\ k # sEmpty
        /\ Strip(k) = k

\* a write step: what the table held before it (nothing, for a save, which
\* replaces the table), and what it holds after it
C11_WriteStoresValidOnly ==
    LET table == args'.table
        old   == IF pc' = "saved" THEN NoMapping ELSE CategoryMap
        new   == config'.category_mapping
        keys  == DOMAIN old \cup DOMAIN new
                 \cup {EntryKey(table.rows[i]) : i \in DOMAIN table.rows}
    IN  \A k \in keys :
            LET valid == C11_ValidRows(table, k)
            IN  IF valid = {}
                THEN /\ (k \in DOMAIN new) = (k \in DOMAIN old)
                     /\ k \in DOMAIN new => new[k] = old[k]
                ELSE /\ k \in DOMAIN new
                     /\ new[k] = EntryCat(table.rows[C11_Last(valid)])

\* C11: after any sequence of Category_Mapping imports and saves from an empty
\* lookup table, every stored label is one of MRO, Services, Capex, PCM and
\* every key is a non-empty trimmed text; a write leaves out each entry whose
\* trimmed label is none of the four (or whose key is empty) and stores every
\* other entry of the same write under its trimmed key, the last entry of a
\* key giving its label.
Thm_C11_LookupHoldsOnlyLabels ==
    []C11_TableValid /\ [][C11_WriteStoresValidOnly]_vars

\* an import read an entry with the label Misc and a
\* valid entry under another key: the valid one is stored trimmed, the other
\* key is not in the table
Wit_C11_InvalidDroppedValidStored ==
    /\ pc = "imported"
    /\ \E i, j \in DOMAIN args.table.rows :
          /\ EntryCat(args.table.rows[i]) = sMisc
          /\ EntryKey(args.table.rows[i]) \notin DOMAIN CategoryMap
          /\ args.table.rows[j]["Key_Field"] = StrCell(sPR1Padded)
          /\ sPR1 \in DOMAIN CategoryMap
          /\ CategoryMap[sPR1] = sMRO

(* C12 *)

C12_NoStatusField(r) == "PR_Status" \notin DOMAIN r

C12_NoDeliveryFields(r) ==
    {"Delivery_Status", "PO_Quantity", "GRN_Quantity"} \cap DOMAIN r = {}

\* C12: the classifiers annotate every row whatever fields are missing, and an
\* absent field fires no trigger: a PR row without a PR_Status field is open
\* exactly when its number is not linked to a PO, and a PO row without
\* Delivery_Status and without the quantity fields is not open.
Claim_C12_AbsentFieldFiresNoTrigger ==
    Computed =>
        /\ \A r \in RowsOf(prs) :
              C12_NoStatusField(r) =>
                  /\ "Is_Open_PR" \in DOMAIN r
                  /\ (r["Is_Open_PR"] = BoolCell(TRUE)) <=> ~C1_Linked(r)
        /\ \A r \in RowsOf(pos) :
              C12_NoDeliveryFields(r) =>
                  /\ "Is_Open_Delivery_PO" \in DOMAIN r
                  /\ r["Is_Open_Delivery_PO"] = BoolCell(FALSE)

(* C13 *)

\* C13: the Open PRs metric of the compute_metrics call on the filtered tables
\* equals the number of rows of the filtered PR table whose Is_Open_PR flag,
\* set by the call on the full tables, is true, whatever rows of the PO table
\* the filters removed.
Claim_C13_FilteredOpenPRsMatchFlags ==
    pc = "done" =>
        /\ OPEN_PRS \in DOMAIN metrics_f
        /\ metrics_f[OPEN_PRS] =
               IF "Is_Open_PR" \in prs_f.cols THEN Count(prs_f, "Is_Open_PR") ELSE 0

====
